---- MODULE Spec2Model ----
(***************************************************************************)
(* Model of the videohub client (package videohub): the connection         *)
(* manager (connect, reconnect, send), the frame reader goroutine          *)
(* (reader), the block router (decodeMessage, responseProcessor and the    *)
(* process* handlers) and the facade (Route, BulkRoute, InputLabel,        *)
(* OutputLabel).                                                           *)
(*                                                                         *)
(* A Go string or []byte is a sequence of one-character strings, so that   *)
(* formatting, splitting and parsing are computed, not assumed.  A Go      *)
(* slice s is a sequence; the Go element s[i] is the element i + 1 here.   *)
(***************************************************************************)
EXTENDS Integers, Sequences, FiniteSets, TLC

(***************************************************************************)
(* Bounds of the model.                                                    *)
(***************************************************************************)
\* largest input/output count a device-info block announces
MaxPort == 2
\* largest number of body lines in a label or routing block, and of pairs
\* in a BulkRoute call
MaxLines == 2
\* number of connections the client may open after the initial one
MaxDials == 2
\* number of facade calls the caller thread makes
MaxCalls == 2

(***************************************************************************)
(* Text literals of the protocol.                                          *)
(***************************************************************************)
NL == "\n"
PROTOCOL_PREAMBLE == <<"P","R","O","T","O","C","O","L"," ","P","R","E","A","M","B","L","E">>
VIDEOHUB_DEVICE == <<"V","I","D","E","O","H","U","B"," ","D","E","V","I","C","E">>
INPUT_LABELS == <<"I","N","P","U","T"," ","L","A","B","E","L","S">>
OUTPUT_LABELS == <<"O","U","T","P","U","T"," ","L","A","B","E","L","S">>
VIDEO_OUTPUT_LOCKS == <<"V","I","D","E","O"," ","O","U","T","P","U","T"," ","L","O","C","K","S">>
VIDEO_OUTPUT_ROUTING == <<"V","I","D","E","O"," ","O","U","T","P","U","T"," ","R","O","U","T","I","N","G">>
CONFIGURATION == <<"C","O","N","F","I","G","U","R","A","T","I","O","N">>
KeyVersion == <<"V","e","r","s","i","o","n">>
KeyModelName == <<"M","o","d","e","l"," ","n","a","m","e">>
KeyUniqueID == <<"U","n","i","q","u","e"," ","I","D">>
KeyVideoInputs == <<"V","i","d","e","o"," ","i","n","p","u","t","s">>
KeyVideoOutputs == <<"V","i","d","e","o"," ","o","u","t","p","u","t","s">>
Colon == <<":">>
ColonSpace == <<":"," ">>
Space == <<" ">>
Digits == <<"0","1","2","3","4","5","6","7","8","9">>

(***************************************************************************)
(* The string functions of the Go library the client uses.                 *)
(***************************************************************************)
\* strings.HasSuffix
HasSuffix(s, suffix) ==
    /\ Len(s) >= Len(suffix)
    /\ SubSeq(s, Len(s) - Len(suffix) + 1, Len(s)) = suffix

\* strings.TrimSuffix
TrimSuffix(s, suffix) ==
    IF HasSuffix(s, suffix) THEN SubSeq(s, 1, Len(s) - Len(suffix)) ELSE s

\* strings.Index, 1-based; 0 when sep does not occur in s
Index(s, sep) ==
    LET hits == {i \in 1..(Len(s) - Len(sep) + 1) :
                    \A k \in 1..Len(sep) : s[i + k - 1] = sep[k]}
    IN  IF hits = {} THEN 0 ELSE CHOOSE i \in hits : \A j \in hits : i <= j

\* strings.SplitN for n >= 1 and a non-empty separator
RECURSIVE SplitN(_, _, _)
SplitN(s, sep, n) ==
    LET i == Index(s, sep)
    IN  IF n = 1 \/ i = 0
        THEN <<s>>
        ELSE <<SubSeq(s, 1, i - 1)>> \o SplitN(SubSeq(s, i + Len(sep), Len(s)), sep, n - 1)

\* strings.Split(s, sep) is SplitN without a limit: a string of length l has
\* at most l + 1 parts
Split(s, sep) == SplitN(s, sep, Len(s) + 2)

DigitValue(c) == (CHOOSE i \in 1..10 : Digits[i] = c) - 1

IsDigit(c) == \E i \in 1..10 : Digits[i] = c

RECURSIVE DigitsValue(_)
DigitsValue(s) ==
    IF s = <<>> THEN 0
    ELSE 10 * DigitsValue(SubSeq(s, 1, Len(s) - 1)) + DigitValue(s[Len(s)])

\* strconv.Atoi: an optional sign, then one or more decimal digits; err is
\* TRUE and the value 0 on any other text.  (A value outside int is an error
\* too, with the nearest int as value; no text of the model is that long.)
Atoi(s) ==
    LET signed == s # <<>> /\ s[1] \in {"+", "-"}
        body   == IF signed THEN Tail(s) ELSE s
    IN  IF body = <<>> \/ \E i \in 1..Len(body) : ~IsDigit(body[i])
        THEN [val |-> 0, err |-> TRUE]
        ELSE [val |-> IF signed /\ s[1] = "-" THEN 0 - DigitsValue(body) ELSE DigitsValue(body),
              err |-> FALSE]

\* parseInt drops the error of Atoi
parseInt(s) == Atoi(s).val

RECURSIVE FormatNat(_)
FormatNat(n) ==
    IF n < 10 THEN <<Digits[n + 1]>>
    ELSE FormatNat(n \div 10) \o <<Digits[(n % 10) + 1]>>

\* the %d verb of fmt.Sprintf
FormatInt(n) == IF n < 0 THEN <<"-">> \o FormatNat(0 - n) ELSE FormatNat(n)


(***************************************************************************)
(* State.                                                                  *)
(***************************************************************************)
VARIABLES
    vh,               \* the Videohub struct: conn and the mirrored device state
    status,           \* "running", "panicked" (a run-time panic) or "exited" (log.Fatalf)
    conns,            \* the TCP connections dialled so far, by connection id
    rpc,              \* position of the reader goroutine
    rdSrc,            \* the connection the reader's bufio.Reader wraps
    cpc,              \* position of the caller thread inside a facade call
    command,          \* the argument of the send in progress
    calls,            \* number of facade calls made
    \* history variables, read by the properties only
    last,             \* the block the router decoded last
    inRange,          \* every label and routing line decoded so far had its indices in range
    expInputLabels,   \* input labels by last-write-wins over the decoded lines
    expOutputLabels,  \* output labels by last-write-wins over the decoded lines
    expRouting,       \* routing by last-write-wins over the decoded lines
    delivered,        \* the messages handed to responseProcessor, as lists of lines
    obs               \* observations of the reader and of the caller's sends

vars == <<vh, status, conns, rpc, rdSrc, cpc, command, calls, last, inRange,
          expInputLabels, expOutputLabels, expRouting, delivered, obs>>

\* make([]T, n) filled with v; n < 0 is a run-time panic, handled by the callers
Make(n, v) == [i \in 1..n |-> v]

\* the zero value of the device-state fields of Videohub, with connection c
NewVideohubState(c) ==
    [conn |-> c, protocolVersion |-> <<>>, model |-> <<>>, uniqueID |-> <<>>,
     inputs |-> 0, outputs |-> 0,
     inputLabels |-> <<>>, outputLabels |-> <<>>, routing |-> <<>>]

(***************************************************************************)
(* Block router.  The handlers take and return m = [vh, panic]: the struct *)
(* and whether a run-time panic has stopped the goroutine.  A panic leaves *)
(* the assignments made before it in place.                                *)
(***************************************************************************)
\* body of the loop of processProtocolPreamble
preambleItem(m, item) ==
    LET parts == Split(item, ColonSpace)
    IN  IF m.panic \/ Len(parts) # 2 THEN m
        ELSE IF parts[1] = KeyVersion
             THEN [m EXCEPT !.vh.protocolVersion = parts[2]]
             ELSE m

RECURSIVE processProtocolPreamble(_, _)
processProtocolPreamble(m, contents) ==
    IF contents = <<>> THEN m
    ELSE processProtocolPreamble(preambleItem(m, Head(contents)), Tail(contents))

\* the "Video outputs" case without the loop that sets routing to -1
videoOutputsNoSentinel(m, value) ==
    LET n == parseInt(value)
    IN  IF n < 0
        THEN [m EXCEPT !.vh.outputs = n, !.panic = TRUE]
        ELSE [m EXCEPT !.vh.outputs = n,
                       !.vh.outputLabels = Make(n, <<>>),
                       !.vh.routing = Make(n, 0)]

\* the "Video inputs" case resetting the routing matrix as well
videoInputsResetsRouting(m, value) ==
    LET n == parseInt(value)
    IN  IF n < 0
        THEN [m EXCEPT !.vh.inputs = n, !.panic = TRUE]
        ELSE [m EXCEPT !.vh.inputs = n, !.vh.inputLabels = Make(n, <<>>),
                       !.vh.routing = Make(Len(m.vh.routing), -1)]

\* case "Video inputs" of processVideohubDevice
videoInputs(m, value) ==
    LET n == parseInt(value)
    IN  IF n < 0
        THEN [m EXCEPT !.vh.inputs = n, !.panic = TRUE]
        ELSE [m EXCEPT !.vh.inputs = n, !.vh.inputLabels = Make(n, <<>>)]

\* case "Video outputs" of processVideohubDevice
videoOutputs(m, value) ==
    LET n == parseInt(value)
    IN  IF n < 0
        THEN [m EXCEPT !.vh.outputs = n, !.panic = TRUE]
        ELSE [m EXCEPT !.vh.outputs = n,
                       !.vh.outputLabels = Make(n, <<>>),
                       !.vh.routing = Make(n, -1)]

\* body of the loop of processVideohubDevice
deviceItem(m, item) ==
    LET parts == Split(item, ColonSpace)
    IN  IF m.panic \/ Len(parts) # 2 THEN m
        ELSE CASE parts[1] = KeyModelName    -> [m EXCEPT !.vh.model = parts[2]]
               [] parts[1] = KeyUniqueID     -> [m EXCEPT !.vh.uniqueID = parts[2]]
               [] parts[1] = KeyVideoInputs  -> videoInputs(m, parts[2])
               [] parts[1] = KeyVideoOutputs -> videoOutputs(m, parts[2])
               [] OTHER -> m

RECURSIVE processVideohubDevice(_, _)
processVideohubDevice(m, contents) ==
    IF contents = <<>> THEN m
    ELSE processVideohubDevice(deviceItem(m, Head(contents)), Tail(contents))

\* the label split done on every space instead of the first one only
labelPartsEverySpace(item) == Split(item, Space)

\* strings.SplitN(item, " ", 2) of the label handlers
labelParts(item) == SplitN(item, Space, 2)

\* body of the loop of processInputLabels; an index outside the slice panics
inputLabelsItem(m, item) ==
    LET parts == labelParts(item)
        i     == parseInt(parts[1])
    IN  IF m.panic \/ Len(parts) # 2 THEN m
        ELSE IF i < 0 \/ i >= Len(m.vh.inputLabels)
             THEN [m EXCEPT !.panic = TRUE]
             ELSE [m EXCEPT !.vh.inputLabels[i + 1] = parts[2]]

RECURSIVE processInputLabels(_, _)
processInputLabels(m, contents) ==
    IF contents = <<>> THEN m
    ELSE processInputLabels(inputLabelsItem(m, Head(contents)), Tail(contents))

\* the output label appended to the text already stored
outputLabelsItemAppends(m, item) ==
    LET parts == labelParts(item)
        o     == parseInt(parts[1])
    IN  IF m.panic \/ Len(parts) # 2 THEN m
        ELSE IF o < 0 \/ o >= Len(m.vh.outputLabels)
             THEN [m EXCEPT !.panic = TRUE]
             ELSE [m EXCEPT !.vh.outputLabels[o + 1] = @ \o parts[2]]

\* body of the loop of processOutputLabels
outputLabelsItem(m, item) ==
    LET parts == labelParts(item)
        o     == parseInt(parts[1])
    IN  IF m.panic \/ Len(parts) # 2 THEN m
        ELSE IF o < 0 \/ o >= Len(m.vh.outputLabels)
             THEN [m EXCEPT !.panic = TRUE]
             ELSE [m EXCEPT !.vh.outputLabels[o + 1] = parts[2]]

RECURSIVE processOutputLabels(_, _)
processOutputLabels(m, contents) ==
    IF contents = <<>> THEN m
    ELSE processOutputLabels(outputLabelsItem(m, Head(contents)), Tail(contents))

\* the routing line applied only while the destination is still unknown
outputRoutingItemFirstWins(m, item) ==
    LET parts       == Split(item, Space)
        destination == parseInt(parts[1])
        source      == parseInt(parts[2])
    IN  IF m.panic \/ Len(parts) # 2 THEN m
        ELSE IF destination < 0 \/ destination >= Len(m.vh.routing)
             THEN [m EXCEPT !.panic = TRUE]
             ELSE IF m.vh.routing[destination + 1] # -1 THEN m
                  ELSE [m EXCEPT !.vh.routing[destination + 1] = source]

\* body of the loop of processOutputRouting
outputRoutingItem(m, item) ==
    LET parts       == Split(item, Space)
        destination == parseInt(parts[1])
        source      == parseInt(parts[2])
    IN  IF m.panic \/ Len(parts) # 2 THEN m
        ELSE IF destination < 0 \/ destination >= Len(m.vh.routing)
             THEN [m EXCEPT !.panic = TRUE]
             ELSE [m EXCEPT !.vh.routing[destination + 1] = source]

RECURSIVE processOutputRouting(_, _)
processOutputRouting(m, contents) ==
    IF contents = <<>> THEN m
    ELSE processOutputRouting(outputRoutingItem(m, Head(contents)), Tail(contents))

\* responseProcessor handing a VIDEO OUTPUT LOCKS block to the routing handler
responseProcessorLocksRouted(m, message) ==
    LET messageType == TrimSuffix(message[1], Colon)
        contents    == Tail(message)
    IN  CASE messageType = PROTOCOL_PREAMBLE    -> processProtocolPreamble(m, contents)
          [] messageType = VIDEOHUB_DEVICE      -> processVideohubDevice(m, contents)
          [] messageType = INPUT_LABELS         -> processInputLabels(m, contents)
          [] messageType = OUTPUT_LABELS        -> processOutputLabels(m, contents)
          [] messageType = VIDEO_OUTPUT_LOCKS   -> processOutputRouting(m, contents)
          [] messageType = VIDEO_OUTPUT_ROUTING -> processOutputRouting(m, contents)
          [] messageType = CONFIGURATION        -> m
          [] OTHER -> m

\* message is never empty: strings.Split returns at least one element
responseProcessor(m, message) ==
    LET messageType == TrimSuffix(message[1], Colon)
        contents    == Tail(message)
    IN  CASE messageType = PROTOCOL_PREAMBLE    -> processProtocolPreamble(m, contents)
          [] messageType = VIDEOHUB_DEVICE      -> processVideohubDevice(m, contents)
          [] messageType = INPUT_LABELS         -> processInputLabels(m, contents)
          [] messageType = OUTPUT_LABELS        -> processOutputLabels(m, contents)
          [] messageType = VIDEO_OUTPUT_LOCKS   -> m
          [] messageType = VIDEO_OUTPUT_ROUTING -> processOutputRouting(m, contents)
          [] messageType = CONFIGURATION        -> m
          [] OTHER -> m

\* the lines decodeMessage hands to responseProcessor
messageLines(message) == Split(TrimSuffix(message, <<NL, NL>>), <<NL>>)

decodeMessage(m, message) == responseProcessor(m, messageLines(message))


(***************************************************************************)
(* What the device puts on the wire.                                       *)
(***************************************************************************)
Optional(S) == {<<>>} \cup {<<x>> : x \in S}

SeqsUpTo(S, n) == UNION {[1..k -> S] : k \in 0..n}

RECURSIVE Concat(_)
Concat(ss) == IF ss = <<>> THEN <<>> ELSE Head(ss) \o Concat(Tail(ss))

\* a block on the wire: the header line, the body lines, a blank line
Block(header, lines) ==
    header \o <<":", NL>> \o Concat([k \in 1..Len(lines) |-> lines[k] \o <<NL>>]) \o <<NL>>

KeyValue(key, value) == key \o ColonSpace \o value

\* the body line of a label block (e = <<index, text>>) and of a routing
\* block (e = <<destination, source>>)
LabelLine(e) == FormatInt(e[1]) \o Space \o e[2]
RoutingLine(e) == FormatInt(e[1]) \o Space \o FormatInt(e[2])

Counts == -1..MaxPort
Indices == 0..MaxPort
Sources == {0, 1}
LabelTexts == {<<"A">>, <<"A", " ", "B">>}
Versions == {<<"2", ".", "7">>}
ModelNames == {<<"H", "u", "b">>}
UniqueIDs == {<<"7", "C">>}
InertHeaders == {VIDEO_OUTPUT_LOCKS, CONFIGURATION, <<"A", "L", "A", "R", "M">>}
\* body lines that would change the state under another header
ForeignLines == {KeyValue(KeyModelName, <<"X">>), KeyValue(KeyVideoOutputs, <<"0">>)}
InertBodies == {<<>>, <<RoutingLine(<<0, 1>>)>>, <<KeyValue(KeyVideoOutputs, <<"0">>)>>}
\* the counts of the device-info blocks with any subset of the four keys
KeyCounts == {0, MaxPort}

(***************************************************************************)
(* History of the decoded blocks.                                          *)
(***************************************************************************)
\* kind: the type of the block; n, m: the counts a device-info block with
\* both counts announced; populated: the tables held labels or routes before
\* the block; oor, dup: a label or routing block had a line with an index
\* out of range, or two lines with the same index; bad: it had a malformed
\* line; keys: the keys of the body lines of a preamble or device-info block
NoBlock == [kind |-> "none", n |-> <<>>, m |-> <<>>, oor |-> FALSE, dup |-> FALSE,
            populated |-> FALSE, bad |-> FALSE, keys |-> {}]

\* some entry of a table differs from what a device-info block leaves there
Populated(v) ==
    \/ \E i \in 1..Len(v.inputLabels) : v.inputLabels[i] # <<>>
    \/ \E i \in 1..Len(v.outputLabels) : v.outputLabels[i] # <<>>
    \/ \E i \in 1..Len(v.routing) : v.routing[i] # -1

\* the table after a block by last-write-wins: entry p takes the value of
\* the last line that names p, and keeps its value when no line names it;
\* a line naming no entry of the table changes nothing
LastWriteWins(table, entries) ==
    [p \in 1..Len(table) |->
        LET ks == {k \in 1..Len(entries) : entries[k][1] = p - 1}
        IN  IF ks = {} THEN table[p]
            ELSE entries[CHOOSE k \in ks : \A j \in ks : j <= k][2]]

OutOfRange(entries, count) ==
    \E k \in 1..Len(entries) : entries[k][1] < 0 \/ entries[k][1] >= count

Duplicated(entries) ==
    \E j, k \in 1..Len(entries) : j < k /\ entries[j][1] = entries[k][1]

(***************************************************************************)
(* The block router applied to the blocks of a device.                     *)
(***************************************************************************)
Running == status = "running"

SystemUnchanged == UNCHANGED <<conns, rpc, rdSrc, cpc, command, calls, delivered, obs>>

\* decodeMessage on the bytes of one block
Decode(bytes) ==
    LET m == decodeMessage([vh |-> vh, panic |-> FALSE], bytes)
    IN  /\ vh' = m.vh
        /\ status' = IF m.panic THEN "panicked" ELSE status

\* a preamble: a Version line or none, and a line with a key of another block
DecodePreamble ==
    \E version \in Optional(Versions), other \in Optional(ForeignLines) :
        /\ Running
        /\ Decode(Block(PROTOCOL_PREAMBLE,
                        [k \in 1..Len(version) |-> KeyValue(KeyVersion, version[k])] \o other))
        /\ last' = [NoBlock EXCEPT !.kind = "preamble",
                                   !.keys = IF version = <<>> THEN {} ELSE {"version"},
                                   !.populated = Populated(vh)]
        /\ UNCHANGED <<inRange, expInputLabels, expOutputLabels, expRouting>>
        /\ SystemUnchanged

DecodeDeviceInfo ==
    \E name \in ModelNames, id \in UniqueIDs, n \in Optional(Counts), m \in Optional(Counts) :
        LET idLines == <<KeyValue(KeyModelName, name), KeyValue(KeyUniqueID, id)>>
            nLines  == [k \in 1..Len(n) |-> KeyValue(KeyVideoInputs, FormatInt(n[k]))]
            mLines  == [k \in 1..Len(m) |-> KeyValue(KeyVideoOutputs, FormatInt(m[k]))]
        IN  /\ Running
            /\ Decode(Block(VIDEOHUB_DEVICE, idLines \o nLines \o mLines))
            /\ last' = IF n # <<>> /\ m # <<>>
                       THEN [NoBlock EXCEPT !.kind = "device", !.n = n, !.m = m,
                                            !.populated = Populated(vh)]
                       ELSE [NoBlock EXCEPT !.kind = "device"]
            /\ expInputLabels' = IF n # <<>> /\ n[1] >= 0 THEN Make(n[1], <<>>)
                                 ELSE expInputLabels
            /\ expOutputLabels' = IF m # <<>> /\ m[1] >= 0 THEN Make(m[1], <<>>)
                                  ELSE expOutputLabels
            /\ expRouting' = IF m # <<>> /\ m[1] >= 0 THEN Make(m[1], -1)
                             ELSE expRouting
            /\ UNCHANGED inRange
            /\ SystemUnchanged

DecodeInputLabels ==
    \E entries \in SeqsUpTo(Indices \X LabelTexts, MaxLines) :
        /\ Running
        /\ Decode(Block(INPUT_LABELS, [k \in 1..Len(entries) |-> LabelLine(entries[k])]))
        /\ last' = [NoBlock EXCEPT !.kind = "inputLabels",
                                   !.oor = OutOfRange(entries, vh.inputs),
                                   !.dup = Duplicated(entries)]
        /\ inRange' = [inRange EXCEPT !.index = @ /\ ~OutOfRange(entries, vh.inputs)]
        /\ expInputLabels' = LastWriteWins(expInputLabels, entries)
        /\ UNCHANGED <<expOutputLabels, expRouting>>
        /\ SystemUnchanged

DecodeOutputLabels ==
    \E entries \in SeqsUpTo(Indices \X LabelTexts, MaxLines) :
        /\ Running
        /\ Decode(Block(OUTPUT_LABELS, [k \in 1..Len(entries) |-> LabelLine(entries[k])]))
        /\ last' = [NoBlock EXCEPT !.kind = "outputLabels",
                                   !.oor = OutOfRange(entries, vh.outputs),
                                   !.dup = Duplicated(entries)]
        /\ inRange' = [inRange EXCEPT !.index = @ /\ ~OutOfRange(entries, vh.outputs)]
        /\ expOutputLabels' = LastWriteWins(expOutputLabels, entries)
        /\ UNCHANGED <<expInputLabels, expRouting>>
        /\ SystemUnchanged

DecodeOutputRouting ==
    \E entries \in SeqsUpTo(Indices \X Sources, MaxLines) :
        /\ Running
        /\ Decode(Block(VIDEO_OUTPUT_ROUTING,
                        [k \in 1..Len(entries) |-> RoutingLine(entries[k])]))
        /\ last' = [NoBlock EXCEPT !.kind = "routing",
                                   !.oor = OutOfRange(entries, vh.outputs),
                                   !.dup = Duplicated(entries)]
        /\ inRange' = [index  |-> inRange.index /\ ~OutOfRange(entries, vh.outputs),
                       source |-> inRange.source /\
                                  \A k \in 1..Len(entries) : entries[k][2] < vh.inputs]
        /\ expRouting' = LastWriteWins(expRouting, entries)
        /\ UNCHANGED <<expInputLabels, expOutputLabels>>
        /\ SystemUnchanged

\* a block the router does nothing with, with the body of a routing, label
\* or device-info block
DecodeInert ==
    \E header \in InertHeaders, body \in InertBodies :
        /\ Running
        /\ Decode(Block(header, body))
        /\ last' = [NoBlock EXCEPT !.kind = "inert", !.populated = Populated(vh)]
        /\ UNCHANGED <<inRange, expInputLabels, expOutputLabels, expRouting>>
        /\ SystemUnchanged

\* the client as NewVideohub leaves it, before any block has arrived
InitRouter ==
    /\ vh = NewVideohubState(1)
    /\ status = "running"
    /\ conns = <<>>
    /\ rpc = "read"
    /\ rdSrc = 1
    /\ cpc = "idle"
    /\ command = <<>>
    /\ calls = 0
    /\ last = NoBlock
    /\ inRange = [index |-> TRUE, source |-> TRUE]
    /\ expInputLabels = <<>>
    /\ expOutputLabels = <<>>
    /\ expRouting = <<>>
    /\ delivered = <<>>
    /\ obs = <<>>

\* the device announces its topology and sends routing blocks
NextRouting ==
    \/ DecodeDeviceInfo
    \/ DecodeOutputRouting

SpecRouting == InitRouter /\ [][NextRouting]_vars

\* the device announces its topology and sends label blocks
NextLabels ==
    \/ DecodeDeviceInfo
    \/ DecodeInputLabels
    \/ DecodeOutputLabels

SpecLabels == InitRouter /\ [][NextLabels]_vars


(***************************************************************************)
(* Properties of the block router.                                         *)
(***************************************************************************)
\* C3: a label or routing line whose port index is outside the current
\* topology range is dropped: the decoder does not crash, the line changes
\* nothing, and the other lines of the block are applied (the tables are
\* what last-write-wins over the in-range lines gives).
C3_OutOfRangeLineDropped ==
    (last.kind \in {"inputLabels", "outputLabels", "routing"} /\ last.oor) =>
        /\ status = "running"
        /\ vh.inputLabels = expInputLabels
        /\ vh.outputLabels = expOutputLabels
        /\ vh.routing = expRouting

\* C4: after a device-info block announcing N >= 0 inputs and M >= 0 outputs,
\* the counts are N and M, both label tables have the announced lengths with
\* every entry empty, and the routing matrix has M entries, all -1.
C4_DeviceInfoAllocates ==
    (/\ last.kind = "device"
     /\ last.n # <<>> /\ last.m # <<>>
     /\ last.n[1] >= 0 /\ last.m[1] >= 0) =>
        /\ status = "running"
        /\ vh.inputs = last.n[1]
        /\ vh.outputs = last.m[1]
        /\ Len(vh.inputLabels) = last.n[1]
        /\ Len(vh.outputLabels) = last.m[1]
        /\ Len(vh.routing) = last.m[1]
        /\ \A i \in 1..Len(vh.inputLabels) : vh.inputLabels[i] = <<>>
        /\ \A i \in 1..Len(vh.outputLabels) : vh.outputLabels[i] = <<>>
        /\ \A i \in 1..Len(vh.routing) : vh.routing[i] = -1

\* C4 witness: a device-info block with two inputs and two outputs has been
\* decoded over tables that held labels or routes.
C4_Witness ==
    /\ last.kind = "device" /\ last.populated
    /\ last.n = <<2>> /\ last.m = <<2>>
    /\ vh.routing = <<-1, -1>>

\* C5: with topology known and all indices in range, every routing entry is
\* the source of the last line that named its destination, over all decoded
\* blocks in arrival order, and an entry no line named keeps its value.
C5_RoutingLastWriteWins ==
    (status = "running" /\ inRange.index /\ inRange.source) =>
        /\ Len(vh.routing) = vh.outputs
        /\ vh.routing = expRouting

\* C5 witness: a routing block naming one destination twice has been decoded
\* in range, and the matrix holds a route and an entry still unknown.
C5_Witness ==
    /\ last.kind = "routing" /\ last.dup
    /\ status = "running" /\ inRange.index /\ inRange.source
    /\ vh.routing = <<-1, 1>>

\* C6: with in-range indices, every label table entry is the text of the
\* last line for its index, the text being everything after the first space
\* of the line, spaces included.
C6_LabelsLastWriteWins ==
    (status = "running" /\ inRange.index) =>
        /\ vh.inputLabels = expInputLabels
        /\ vh.outputLabels = expOutputLabels

\* C6 witness: a label block naming one index twice has been decoded and a
\* label containing a space is stored next to one without.
C6_Witness ==
    /\ last.kind \in {"inputLabels", "outputLabels"} /\ last.dup
    /\ status = "running"
    /\ vh.inputLabels = <<<<"A", " ", "B">>, <<"A">>>>
    /\ vh.outputLabels = <<<<>>, <<"A", " ", "B">>>>


\* the lengths of the three tables
TableSizes(v) == <<Len(v.inputLabels), Len(v.outputLabels), Len(v.routing)>>

\* C17: after any sequence of blocks, with any numeric count values, the
\* input label table has exactly 'inputs' entries and the output label table
\* and the routing matrix have exactly 'outputs' entries, and the sizes
\* change only in a step that applies a device-info block.
C17_TableSizesFollowCounts ==
    /\ [](TableSizes(vh) = <<vh.inputs, vh.outputs, vh.outputs>>)
    /\ [][last'.kind # "device" => TableSizes(vh') = TableSizes(vh)]_vars

\* C18: each routing matrix entry is the unknown sentinel or an input index
\* in [0, inputs): a routing line whose source is outside the input range
\* is not stored.  Stated for the states in which the device has inputs.
C18_RoutingEntriesAreInputs ==
    vh.inputs > 0 =>
        \A i \in 1..Len(vh.routing) :
            vh.routing[i] = -1 \/ (0 <= vh.routing[i] /\ vh.routing[i] < vh.inputs)

(***************************************************************************)
(* Blocks with a malformed body line.  A line is a record: its text on the *)
(* wire and, when it is well formed, the entry <<index, value>> it stands  *)
(* for (entry is a sequence of no or one entry).                           *)
(***************************************************************************)
WellFormedLabel(e) == [text |-> LabelLine(e), entry |-> <<e>>]
WellFormedRoute(e) == [text |-> RoutingLine(e), entry |-> <<e>>]
Malformed(text) == [text |-> text, entry |-> <<>>]

\* a label line for the last port of the largest topology, and label lines
\* without a space (one token) and with an index that is not a number
GoodLabelLines == {WellFormedLabel(<<MaxPort - 1, <<"B">>>>)}
BadLabelLines == {Malformed(<<"A">>), Malformed(<<"x", " ", "A">>)}

\* a routing line for the last output, and routing lines of one token, of
\* three tokens and with a destination that is not a number
GoodRoutingLines == {WellFormedRoute(<<MaxPort - 1, 0>>)}
BadRoutingLines ==
    {Malformed(<<"1">>), Malformed(<<"0", " ", "1", " ", "1">>), Malformed(<<"x", " ", "1">>)}

\* the bodies with one malformed line, alone or with a well-formed line
\* before it, after it or both
BodiesAround(good, bad) ==
    {pre \o <<b>> \o post : pre \in SeqsUpTo(good, 1), b \in bad, post \in SeqsUpTo(good, 1)}

Texts(body) == [k \in 1..Len(body) |-> body[k].text]

\* the entries of the well-formed lines of a body, in order
Entries(body) == Concat([k \in 1..Len(body) |-> body[k].entry])

DecodeMalformedInputLabels ==
    \E body \in BodiesAround(GoodLabelLines, BadLabelLines) :
        /\ Running
        /\ Decode(Block(INPUT_LABELS, Texts(body)))
        /\ last' = [NoBlock EXCEPT !.kind = "inputLabels", !.bad = TRUE,
                                   !.oor = OutOfRange(Entries(body), vh.inputs)]
        /\ inRange' = [inRange EXCEPT !.index = @ /\ ~OutOfRange(Entries(body), vh.inputs)]
        /\ expInputLabels' = LastWriteWins(expInputLabels, Entries(body))
        /\ UNCHANGED <<expOutputLabels, expRouting>>
        /\ SystemUnchanged

DecodeMalformedOutputLabels ==
    \E body \in BodiesAround(GoodLabelLines, BadLabelLines) :
        /\ Running
        /\ Decode(Block(OUTPUT_LABELS, Texts(body)))
        /\ last' = [NoBlock EXCEPT !.kind = "outputLabels", !.bad = TRUE,
                                   !.oor = OutOfRange(Entries(body), vh.outputs)]
        /\ inRange' = [inRange EXCEPT !.index = @ /\ ~OutOfRange(Entries(body), vh.outputs)]
        /\ expOutputLabels' = LastWriteWins(expOutputLabels, Entries(body))
        /\ UNCHANGED <<expInputLabels, expRouting>>
        /\ SystemUnchanged

DecodeMalformedRouting ==
    \E body \in BodiesAround(GoodRoutingLines, BadRoutingLines) :
        /\ Running
        /\ Decode(Block(VIDEO_OUTPUT_ROUTING, Texts(body)))
        /\ last' = [NoBlock EXCEPT !.kind = "routing", !.bad = TRUE,
                                   !.oor = OutOfRange(Entries(body), vh.outputs)]
        /\ inRange' = [inRange EXCEPT !.index = @ /\ ~OutOfRange(Entries(body), vh.outputs)]
        /\ expRouting' = LastWriteWins(expRouting, Entries(body))
        /\ UNCHANGED <<expInputLabels, expOutputLabels>>
        /\ SystemUnchanged

\* the device announces its topology and sends blocks with a malformed line
NextMalformed ==
    \/ DecodeDeviceInfo
    \/ DecodeMalformedInputLabels
    \/ DecodeMalformedOutputLabels
    \/ DecodeMalformedRouting

SpecMalformed == InitRouter /\ [][NextMalformed]_vars

\* C11: a malformed body line (wrong token count, or an index token that is
\* not a number) is dropped on its own: after a block with such a line,
\* decoded with no table empty and its well-formed lines in range, the
\* router is running and every table is what the well-formed lines alone
\* give, entry 0 included.
C11_MalformedLineDropped ==
    (/\ last.bad /\ inRange.index
     /\ vh.inputLabels # <<>> /\ vh.outputLabels # <<>>) =>
        /\ status = "running"
        /\ vh.inputLabels = expInputLabels
        /\ vh.outputLabels = expOutputLabels
        /\ vh.routing = expRouting


(***************************************************************************)
(* Blocks of every type over a populated state.                            *)
(***************************************************************************)
\* a device-info block with any subset of the four keys the handler knows
DecodeDeviceKeys ==
    \E name \in Optional(ModelNames), id \in Optional(UniqueIDs),
       n \in Optional(KeyCounts), m \in Optional(KeyCounts) :
        LET nameLines == [k \in 1..Len(name) |-> KeyValue(KeyModelName, name[k])]
            idLines   == [k \in 1..Len(id) |-> KeyValue(KeyUniqueID, id[k])]
            nLines    == [k \in 1..Len(n) |-> KeyValue(KeyVideoInputs, FormatInt(n[k]))]
            mLines    == [k \in 1..Len(m) |-> KeyValue(KeyVideoOutputs, FormatInt(m[k]))]
        IN  /\ Running
            /\ Decode(Block(VIDEOHUB_DEVICE, nameLines \o idLines \o nLines \o mLines))
            /\ last' = [NoBlock EXCEPT !.kind = "deviceKeys",
                                       !.keys = {"model" : k \in 1..Len(name)}
                                                \cup {"uniqueID" : k \in 1..Len(id)}
                                                \cup {"inputs" : k \in 1..Len(n)}
                                                \cup {"outputs" : k \in 1..Len(m)},
                                       !.populated = Populated(vh)]
            /\ expInputLabels' = IF n # <<>> THEN Make(n[1], <<>>) ELSE expInputLabels
            /\ expOutputLabels' = IF m # <<>> THEN Make(m[1], <<>>) ELSE expOutputLabels
            /\ expRouting' = IF m # <<>> THEN Make(m[1], -1) ELSE expRouting
            /\ UNCHANGED inRange
            /\ SystemUnchanged

\* a label or routing block with no line or one line, for the last port of
\* the largest topology
DecodeTables ==
    \E kind \in {"inputLabels", "outputLabels", "routing"} :
        \E body \in SeqsUpTo(IF kind = "routing" THEN GoodRoutingLines ELSE GoodLabelLines, 1) :
            LET header == CASE kind = "inputLabels"  -> INPUT_LABELS
                            [] kind = "outputLabels" -> OUTPUT_LABELS
                            [] kind = "routing"      -> VIDEO_OUTPUT_ROUTING
                count  == IF kind = "inputLabels" THEN vh.inputs ELSE vh.outputs
            IN  /\ Running
                /\ Decode(Block(header, Texts(body)))
                /\ last' = [NoBlock EXCEPT !.kind = kind,
                                           !.oor = OutOfRange(Entries(body), count)]
                /\ inRange' = [inRange EXCEPT !.index = @ /\ ~OutOfRange(Entries(body), count)]
                /\ expInputLabels' = IF kind = "inputLabels"
                                     THEN LastWriteWins(expInputLabels, Entries(body))
                                     ELSE expInputLabels
                /\ expOutputLabels' = IF kind = "outputLabels"
                                      THEN LastWriteWins(expOutputLabels, Entries(body))
                                      ELSE expOutputLabels
                /\ expRouting' = IF kind = "routing"
                                 THEN LastWriteWins(expRouting, Entries(body))
                                 ELSE expRouting
                /\ SystemUnchanged

\* the device sends blocks of every type
NextBlocks ==
    \/ DecodePreamble
    \/ DecodeDeviceKeys
    \/ DecodeTables
    \/ DecodeInert

SpecBlocks == InitRouter /\ [][NextBlocks]_vars

\* the fields of Device State
DeviceState(v) ==
    <<v.protocolVersion, v.model, v.uniqueID, v.inputs, v.outputs,
      v.inputLabels, v.outputLabels, v.routing>>

\* C12: a block whose header is not a recognized type, or is VIDEO OUTPUT
\* LOCKS or CONFIGURATION, leaves every field of Device State unchanged,
\* whatever its body lines are: every step that decodes such a block keeps
\* version, model, unique ID, counts, label tables and routing matrix.
C12_InertBlockChangesNothing ==
    [][last'.kind = "inert" => DeviceState(vh') = DeviceState(vh)]_vars

\* C12 witness: such a block has been decoded in a state with identity,
\* topology and a route known and is followed by a running router.
C12_Witness ==
    /\ last.kind = "inert" /\ last.populated
    /\ status = "running"
    /\ vh.protocolVersion # <<>> /\ vh.model # <<>> /\ vh.uniqueID # <<>>
    /\ vh.inputs > 0 /\ vh.outputs > 0
    /\ \E i \in 1..Len(vh.routing) : vh.routing[i] # -1


\* C20: a preamble or device-info block overwrites only the fields whose
\* keys are in its body and clears none: a preamble changes at most the
\* version; a device-info block keeps the version, keeps model and unique ID
\* unless it carries their key, keeps inputs and the input labels unless it
\* carries "Video inputs", and keeps outputs, the output labels and the
\* routing matrix unless it carries "Video outputs"; a field whose key is
\* carried takes the value of the line.
C20_OnlyNamedFieldsChange ==
    [][/\ last'.kind = "preamble" =>
           /\ Tail(DeviceState(vh')) = Tail(DeviceState(vh))
           /\ vh'.protocolVersion \in (IF "version" \in last'.keys THEN Versions
                                        ELSE {vh.protocolVersion})
       /\ last'.kind = "deviceKeys" =>
           /\ vh'.protocolVersion = vh.protocolVersion
           /\ vh'.model \in (IF "model" \in last'.keys THEN ModelNames ELSE {vh.model})
           /\ vh'.uniqueID \in (IF "uniqueID" \in last'.keys THEN UniqueIDs
                                 ELSE {vh.uniqueID})
           /\ "inputs" \notin last'.keys =>
                  vh'.inputs = vh.inputs /\ vh'.inputLabels = vh.inputLabels
           /\ "outputs" \notin last'.keys =>
                  /\ vh'.outputs = vh.outputs
                  /\ vh'.outputLabels = vh.outputLabels
                  /\ vh'.routing = vh.routing
      ]_vars

\* C20 witness: a device-info block carrying only "Video inputs" has been
\* decoded in a state with identity, labels and a route known, and identity,
\* output labels and route are still there.
C20_Witness ==
    /\ last.kind = "deviceKeys" /\ last.keys = {"inputs"} /\ last.populated
    /\ vh.protocolVersion # <<>> /\ vh.model # <<>> /\ vh.uniqueID # <<>>
    /\ \E i \in 1..Len(vh.outputLabels) : vh.outputLabels[i] # <<>>
    /\ \E i \in 1..Len(vh.routing) : vh.routing[i] # -1


(***************************************************************************)
(* A block decoded twice in a row.  delivered holds the lines of the last  *)
(* message handed to responseProcessor; the expected tables of the other   *)
(* specifications are not kept here.                                       *)
(***************************************************************************)
\* the blocks decoded twice: a preamble, device-info blocks with either
\* count or both, label blocks of no or one line, routing blocks of up to
\* MaxLines lines for one destination, and a block of no known type
TwiceBlocks ==
    {Block(PROTOCOL_PREAMBLE, <<KeyValue(KeyVersion, v)>>) : v \in Versions}
    \cup {Block(VIDEOHUB_DEVICE,
                [k \in 1..Len(n) |-> KeyValue(KeyVideoInputs, FormatInt(n[k]))] \o
                [k \in 1..Len(m) |-> KeyValue(KeyVideoOutputs, FormatInt(m[k]))]) :
             n \in Optional({MaxPort}), m \in Optional({MaxPort})}
    \cup {Block(header, [k \in 1..Len(es) |-> LabelLine(es[k])]) :
             header \in {INPUT_LABELS, OUTPUT_LABELS},
             es \in SeqsUpTo({<<0, <<"A", " ", "B">>>>}, 1)}
    \cup {Block(VIDEO_OUTPUT_ROUTING, [k \in 1..Len(es) |-> RoutingLine(es[k])]) :
             es \in SeqsUpTo({<<0, 0>>, <<0, 1>>}, MaxLines)}
    \cup {Block(CONFIGURATION, <<RoutingLine(<<0, 1>>)>>)}

\* decodeMessage on the bytes of a block
DecodeOnce ==
    \E bytes \in TwiceBlocks :
        /\ Running
        /\ Decode(bytes)
        /\ delivered' = <<messageLines(bytes)>>
        /\ last' = [NoBlock EXCEPT !.kind = "once"]
        /\ UNCHANGED <<conns, rpc, rdSrc, cpc, command, calls, obs>>
        /\ UNCHANGED <<inRange, expInputLabels, expOutputLabels, expRouting>>

\* responseProcessor on the lines of the block just decoded
DecodeAgain ==
    /\ Running /\ last.kind = "once"
    /\ LET m == responseProcessor([vh |-> vh, panic |-> FALSE], delivered[1])
       IN  /\ vh' = m.vh
           /\ status' = IF m.panic THEN "panicked" ELSE status
    /\ last' = [NoBlock EXCEPT !.kind = "again"]
    /\ UNCHANGED <<conns, rpc, rdSrc, cpc, command, calls, delivered, obs>>
    /\ UNCHANGED <<inRange, expInputLabels, expOutputLabels, expRouting>>

NextTwice ==
    \/ DecodeOnce
    \/ DecodeAgain

SpecTwice == InitRouter /\ [][NextTwice]_vars

\* C13: for every block and every Device State in which it can be decoded,
\* decoding it a second time right after the first changes nothing: the
\* second decode does not fail and leaves every field of Device State as the
\* first decode left it.
C13_DecodeTwiceIsOnce ==
    [][last'.kind = "again" =>
           status' = "running" /\ DeviceState(vh') = DeviceState(vh)]_vars

\* C13 witness: a routing block with two lines has been decoded twice in a
\* row over known topology and the matrix holds its route.
C13_Witness ==
    /\ last.kind = "again" /\ status = "running"
    /\ Len(delivered[1]) = 3
    /\ delivered[1][1] = VIDEO_OUTPUT_ROUTING \o Colon
    /\ vh.routing # <<>> /\ vh.routing[1] # -1
    /\ \E i \in 1..Len(vh.outputLabels) : vh.outputLabels[i] # <<>>


(***************************************************************************)
(* Facade and connection manager.                                          *)
(***************************************************************************)
\* fmt.Sprintf("VIDEO OUTPUT ROUTING:\n%d %d", destination, source)
Route(destination, source) ==
    VIDEO_OUTPUT_ROUTING \o <<":", NL>> \o FormatInt(destination) \o <<" ">> \o FormatInt(source)

\* BulkRoute with the pairs written last to first
RECURSIVE BulkRouteReversed(_)
BulkRouteReversed(routes) ==
    IF routes = <<>> THEN VIDEO_OUTPUT_ROUTING \o <<":">>
    ELSE BulkRouteReversed(Tail(routes))
             \o <<NL>> \o FormatInt(Head(routes)[1]) \o <<" ">> \o FormatInt(Head(routes)[2])

\* the command BulkRoute builds: the header, then "\n%d %d" per pair
RECURSIVE BulkRoute(_)
BulkRoute(routes) ==
    IF routes = <<>> THEN VIDEO_OUTPUT_ROUTING \o <<":">>
    ELSE BulkRoute(SubSeq(routes, 1, Len(routes) - 1))
             \o <<NL>> \o FormatInt(routes[Len(routes)][1])
             \o <<" ">> \o FormatInt(routes[Len(routes)][2])

\* fmt.Sprintf("INPUT LABELS:\n%d %s", source, label)
InputLabel(source, label) ==
    INPUT_LABELS \o <<":", NL>> \o FormatInt(source) \o <<" ">> \o label

\* fmt.Sprintf("OUTPUT LABELS:\n%d %s", destination, label)
OutputLabel(destination, label) ==
    OUTPUT_LABELS \o <<":", NL>> \o FormatInt(destination) \o <<" ">> \o label

\* send with a single newline after the command
sendBytesOneNewline(cmd) == cmd \o <<NL>>

\* the bytes send hands to conn.Write
sendBytes(cmd) == cmd \o <<NL, NL>>

\* send writing the command again once it has reconnected
afterSendReconnectRetry == "write"

\* where send goes after its reconnect: it returns
afterSendReconnect == "idle"

\* net.Conn.Close on connection c
closeConn(cs, c) == [cs EXCEPT ![c].closed = TRUE]

\* connect building a new client around the connection
connectedFresh(v, c) == NewVideohubState(c)

\* connect: vh.conn = conn
connected(v, c) == [v EXCEPT !.conn = c]

\* net.Dial succeeding: a new connection, on which the device sends stream
dial(cs, stream) ==
    Append(cs, [closed |-> FALSE, broken |-> FALSE, inbox |-> stream, written |-> <<>>])

\* a read or a write on connection c fails
Failing(c) == conns[c].closed \/ conns[c].broken

CanDial == Len(conns) < 1 + MaxDials

(***************************************************************************)
(* What the device sends on a connection: a sequence of blocks.            *)
(***************************************************************************)
ScenarioAB ==
    << [header |-> VIDEOHUB_DEVICE,
        lines  |-> <<KeyValue(KeyVideoInputs, <<"4">>), KeyValue(KeyVideoOutputs, <<"2">>)>>],
       [header |-> VIDEO_OUTPUT_ROUTING,
        lines  |-> <<RoutingLine(<<0, 3>>), RoutingLine(<<1, 0>>)>>] >>

ShortBlocks ==
    << [header |-> CONFIGURATION, lines |-> <<>>],
       [header |-> PROTOCOL_PREAMBLE, lines |-> <<KeyValue(KeyVersion, <<"2", ".", "7">>)>>] >>

Streams == {ScenarioAB, ShortBlocks}

StreamBytes(blocks) ==
    Concat([k \in 1..Len(blocks) |-> Block(blocks[k].header, blocks[k].lines)])

\* the blocks as the framing rule delimits them: header line, then body lines
StreamBlocks(blocks) ==
    [k \in 1..Len(blocks) |-> <<blocks[k].header \o <<":">>>> \o blocks[k].lines]

\* the arguments of the facade calls of the caller thread taken alone
RouteArgs == {<<0, 3>>, <<-1, 12>>}
BulkRouteArgs == SeqsUpTo({<<0, 1>>, <<0, 2>>}, MaxLines)
LabelArgs == {<<2, <<"C", "a", "m", "e", "r", "a", " ", "B">>>>, <<10, <<>>>>}

\* the calls of the example program, and the list of scenario E
MainRoute == <<0, 0>>
MainInputLabel == <<1, <<"C", "a", "m", "e", "r", "a", " ", "2">>>>
MainOutputLabel == <<0, <<"S", "w", "i", "t", "c", "h", "e", "r", " ", "1">>>>
MainBulkRoute == << <<0, 1>>, <<0, 2>> >>

NoCall == [op |-> "none", args |-> <<>>, ok |-> FALSE, conn |-> 0, reconnects |-> 0,
           wire |-> <<>>]

(***************************************************************************)
(* The reader goroutine.                                                   *)
(***************************************************************************)
\* reader.ReadBytes('\n') has a whole line to return
LineReady(c) == Index(conns[c].inbox, <<NL>>) > 0

NextLine(c) == SubSeq(conns[c].inbox, 1, Index(conns[c].inbox, <<NL>>))

Consume(c) ==
    [conns EXCEPT ![c].inbox =
        SubSeq(conns[c].inbox, Index(conns[c].inbox, <<NL>>) + 1, Len(conns[c].inbox))]

\* append(message[:len(message)-1], message...)
bodyMessage(message) == SubSeq(message, 1, Len(message) - 1) \o message

RouterUnchanged == UNCHANGED <<last, inRange, expInputLabels, expOutputLabels, expRouting>>

\* the first ReadBytes of the loop returns a line: a header line sends the
\* reader to the second ReadBytes, any other line goes to decodeResponse
ReaderReadLine ==
    /\ Running /\ rpc = "read" /\ LineReady(rdSrc)
    /\ conns' = Consume(rdSrc)
    /\ rpc' = IF HasSuffix(NextLine(rdSrc), <<":", NL>>) THEN "body" ELSE "read"
    /\ obs' = [obs EXCEPT !.rdReadFrom = rdSrc]
    /\ UNCHANGED <<vh, status, rdSrc, cpc, command, calls, delivered>>
    /\ RouterUnchanged

\* the second ReadBytes returns a line, which is handed to decodeMessage
ReaderReadBody ==
    /\ Running /\ rpc = "body" /\ LineReady(rdSrc)
    /\ conns' = Consume(rdSrc)
    /\ Decode(bodyMessage(NextLine(rdSrc)))
    /\ delivered' = Append(delivered, messageLines(bodyMessage(NextLine(rdSrc))))
    /\ rpc' = "read"
    /\ obs' = [obs EXCEPT !.rdReadFrom = rdSrc]
    /\ UNCHANGED <<rdSrc, cpc, command, calls>>
    /\ RouterUnchanged

\* either ReadBytes returns an error: the reader goes to reconnect
ReaderReadError ==
    /\ Running /\ rpc \in {"read", "body"} /\ Failing(rdSrc)
    /\ rpc' = "close"
    /\ obs' = [obs EXCEPT !.rdReadFrom = rdSrc, !.readFailures = TRUE]
    /\ UNCHANGED <<vh, status, conns, rdSrc, cpc, command, calls, delivered>>
    /\ RouterUnchanged

\* reconnect, called by the reader: vh.conn.Close()
ReaderClose ==
    /\ Running /\ rpc = "close"
    /\ conns' = closeConn(conns, vh.conn)
    /\ rpc' = "connect"
    /\ obs' = [obs EXCEPT !.rdReadFrom = 0, !.rdEstablished = 0,
                          !.overlap = @ \/ cpc \in {"close", "connect"}]
    /\ UNCHANGED <<vh, status, rdSrc, cpc, command, calls, delivered>>
    /\ RouterUnchanged

\* reconnect, called by the reader: connect() and the dial succeeds
ReaderConnect ==
    /\ Running /\ rpc = "connect" /\ CanDial
    /\ conns' = dial(conns, StreamBytes(obs.stream))
    /\ vh' = connected(vh, Len(conns) + 1)
    /\ rpc' = "read"
    /\ obs' = [obs EXCEPT !.rdEstablished = Len(conns) + 1]
    /\ UNCHANGED <<status, rdSrc, cpc, command, calls, delivered>>
    /\ RouterUnchanged

\* reconnect, called by the reader: connect() and the dial fails
ReaderConnectFail ==
    /\ Running /\ rpc = "connect"
    /\ status' = "exited"
    /\ obs' = [obs EXCEPT !.reconnectFailed = TRUE]
    /\ UNCHANGED <<vh, conns, rpc, rdSrc, cpc, command, calls, delivered>>
    /\ RouterUnchanged

(***************************************************************************)
(* The caller thread.                                                      *)
(***************************************************************************)
\* a facade call builds its command and enters send
Call(op, args, cmd) ==
    /\ Running /\ cpc = "idle" /\ calls < MaxCalls
    /\ command' = cmd
    /\ cpc' = "write"
    /\ calls' = calls + 1
    /\ obs' = [obs EXCEPT !.call = [NoCall EXCEPT !.op = op, !.args = args,
                                       !.wire = [c \in 1..Len(conns) |-> conns[c].written]]]
    /\ UNCHANGED <<vh, status, conns, rpc, rdSrc, delivered>>
    /\ RouterUnchanged

CallRoute == Call("Route", MainRoute, Route(MainRoute[1], MainRoute[2]))

CallBulkRoute == Call("BulkRoute", MainBulkRoute, BulkRoute(MainBulkRoute))

CallInputLabel ==
    Call("InputLabel", MainInputLabel, InputLabel(MainInputLabel[1], MainInputLabel[2]))

CallOutputLabel ==
    Call("OutputLabel", MainOutputLabel, OutputLabel(MainOutputLabel[1], MainOutputLabel[2]))

\* the facade called with every argument of the bounded sets
FacadeRoute == \E a \in RouteArgs : Call("Route", a, Route(a[1], a[2]))

FacadeBulkRoute == \E routes \in BulkRouteArgs : Call("BulkRoute", routes, BulkRoute(routes))

FacadeInputLabel == \E a \in LabelArgs : Call("InputLabel", a, InputLabel(a[1], a[2]))

FacadeOutputLabel == \E a \in LabelArgs : Call("OutputLabel", a, OutputLabel(a[1], a[2]))

\* send: vh.conn.Write succeeds
SendWrite ==
    /\ Running /\ cpc = "write" /\ ~Failing(vh.conn)
    /\ conns' = [conns EXCEPT ![vh.conn].written = @ \o sendBytes(command)]
    /\ cpc' = "idle"
    /\ obs' = [obs EXCEPT !.call.ok = TRUE, !.call.conn = vh.conn]
    /\ UNCHANGED <<vh, status, rpc, rdSrc, command, calls, delivered>>
    /\ RouterUnchanged

\* send: vh.conn.Write returns an error
SendWriteError ==
    /\ Running /\ cpc = "write" /\ Failing(vh.conn)
    /\ cpc' = "close"
    /\ UNCHANGED <<vh, status, conns, rpc, rdSrc, command, calls, delivered, obs>>
    /\ RouterUnchanged

\* reconnect, called by send: vh.conn.Close()
SendClose ==
    /\ Running /\ cpc = "close"
    /\ conns' = closeConn(conns, vh.conn)
    /\ cpc' = "connect"
    /\ obs' = [obs EXCEPT !.call.reconnects = @ + 1,
                          !.overlap = @ \/ rpc \in {"close", "connect"}]
    /\ UNCHANGED <<vh, status, rpc, rdSrc, command, calls, delivered>>
    /\ RouterUnchanged

\* reconnect, called by send: connect() and the dial succeeds
SendConnect ==
    /\ Running /\ cpc = "connect" /\ CanDial
    /\ conns' = dial(conns, StreamBytes(obs.stream))
    /\ vh' = connected(vh, Len(conns) + 1)
    /\ cpc' = afterSendReconnect
    /\ obs' = [obs EXCEPT !.sendEstablished = Len(conns) + 1]
    /\ UNCHANGED <<status, rpc, rdSrc, command, calls, delivered>>
    /\ RouterUnchanged

\* reconnect, called by send: connect() and the dial fails
SendConnectFail ==
    /\ Running /\ cpc = "connect"
    /\ status' = "exited"
    /\ obs' = [obs EXCEPT !.reconnectFailed = TRUE]
    /\ UNCHANGED <<vh, conns, rpc, rdSrc, cpc, command, calls, delivered>>
    /\ RouterUnchanged

\* the network: a connection the client still uses breaks (reset, EOF)
ConnBreak ==
    \E c \in {vh.conn, rdSrc} :
        /\ Running /\ ~conns[c].closed /\ ~conns[c].broken
        /\ conns' = [conns EXCEPT ![c].broken = TRUE]
        /\ UNCHANGED <<vh, status, rpc, rdSrc, cpc, command, calls, delivered, obs>>
        /\ RouterUnchanged

\* the state NewVideohub returns in: connected, the reader started on a
\* bufio.Reader over the first connection
InitWith(stream) ==
    /\ vh = NewVideohubState(1)
    /\ status = "running"
    /\ conns = dial(<<>>, StreamBytes(stream))
    /\ rpc = "read"
    /\ rdSrc = 1
    /\ cpc = "idle"
    /\ command = <<>>
    /\ calls = 0
    /\ last = NoBlock
    /\ inRange = [index |-> TRUE, source |-> TRUE]
    /\ expInputLabels = <<>>
    /\ expOutputLabels = <<>>
    /\ expRouting = <<>>
    /\ delivered = <<>>
    /\ obs = [stream |-> stream, readFailures |-> FALSE, rdReadFrom |-> 0,
              rdEstablished |-> 0, sendEstablished |-> 0,
              reconnectFailed |-> FALSE, overlap |-> FALSE, call |-> NoCall]

Init == \E stream \in Streams : InitWith(stream)

Next ==
    \/ ReaderReadLine
    \/ ReaderReadBody
    \/ ReaderReadError
    \/ ReaderClose
    \/ ReaderConnect
    \/ ReaderConnectFail
    \/ CallRoute
    \/ CallBulkRoute
    \/ CallInputLabel
    \/ CallOutputLabel
    \/ SendWrite
    \/ SendWriteError
    \/ SendClose
    \/ SendConnect
    \/ SendConnectFail
    \/ ConnBreak

Spec == Init /\ [][Next]_vars

\* the device sends nothing: the reader stays in its first ReadBytes until
\* the connection it reads fails
InitSilent == InitWith(<<>>)

NextSilent ==
    \/ ReaderReadError
    \/ ReaderClose
    \/ ReaderConnect
    \/ ReaderConnectFail
    \/ CallRoute
    \/ CallBulkRoute
    \/ CallInputLabel
    \/ CallOutputLabel
    \/ SendWrite
    \/ SendWriteError
    \/ SendClose
    \/ SendConnect
    \/ SendConnectFail
    \/ ConnBreak

SpecSilent == InitSilent /\ [][NextSilent]_vars

\* the blocks of a full state dump of a device with MaxPort inputs and outputs
FullDump ==
    << Block(PROTOCOL_PREAMBLE, <<KeyValue(KeyVersion, <<"2", ".", "7">>)>>),
       Block(VIDEOHUB_DEVICE,
             <<KeyValue(KeyModelName, <<"H", "u", "b">>), KeyValue(KeyUniqueID, <<"7", "C">>),
               KeyValue(KeyVideoInputs, FormatInt(MaxPort)),
               KeyValue(KeyVideoOutputs, FormatInt(MaxPort))>>),
       Block(INPUT_LABELS, <<LabelLine(<<0, <<"A", " ", "B">>>>)>>),
       Block(OUTPUT_LABELS, <<LabelLine(<<MaxPort - 1, <<"B">>>>)>>),
       Block(VIDEO_OUTPUT_ROUTING, <<RoutingLine(<<0, 1>>)>>) >>

\* what the router has decoded before the connection fails: nothing, the
\* blocks of scenarios A and B, or a full dump
Dumps == {<<>>, [k \in 1..Len(ScenarioAB) |-> Block(ScenarioAB[k].header, ScenarioAB[k].lines)],
          FullDump}

\* decodeMessage on each block of a sequence in turn
RECURSIVE DecodeAll(_, _)
DecodeAll(m, blocks) ==
    IF blocks = <<>> THEN m ELSE DecodeAll(decodeMessage(m, Head(blocks)), Tail(blocks))

\* the client connected, its Device State as the router leaves it after a
\* dump, and the device silent from then on
InitReconnect ==
    /\ \E dump \in Dumps :
           vh = DecodeAll([vh |-> NewVideohubState(1), panic |-> FALSE], dump).vh
    /\ status = "running"
    /\ conns = dial(<<>>, <<>>)
    /\ rpc = "read"
    /\ rdSrc = 1
    /\ cpc = "idle"
    /\ command = <<>>
    /\ calls = 0
    /\ last = NoBlock
    /\ inRange = [index |-> TRUE, source |-> TRUE]
    /\ expInputLabels = vh.inputLabels
    /\ expOutputLabels = vh.outputLabels
    /\ expRouting = vh.routing
    /\ delivered = <<>>
    /\ obs = [stream |-> <<>>, readFailures |-> FALSE, rdReadFrom |-> 0,
              rdEstablished |-> 0, sendEstablished |-> 0,
              reconnectFailed |-> FALSE, overlap |-> FALSE, call |-> NoCall]

SpecReconnect == InitReconnect /\ [][NextSilent]_vars

\* label texts a caller may pass: plain, with a newline, and with a blank
\* line followed by a header
WireTexts == {<<"C", "a", "m">>, <<"a", NL, "b">>, <<"A", NL, NL, "X", ":">>}
WireLabelArgs == {<<i, t>> : i \in {0, MaxPort}, t \in WireTexts}

FacadeInputLabelText ==
    \E a \in WireLabelArgs : Call("InputLabel", a, InputLabel(a[1], a[2]))

FacadeOutputLabelText ==
    \E a \in WireLabelArgs : Call("OutputLabel", a, OutputLabel(a[1], a[2]))

\* the caller thread alone, labelling ports with any text
NextWire ==
    \/ FacadeInputLabelText
    \/ FacadeOutputLabelText
    \/ SendWrite
    \/ SendWriteError
    \/ SendClose
    \/ SendConnect
    \/ SendConnectFail
    \/ ConnBreak

SpecWire == InitSilent /\ [][NextWire]_vars

\* the caller thread alone, with every argument of the bounded sets
NextFacade ==
    \/ FacadeRoute
    \/ FacadeBulkRoute
    \/ FacadeInputLabel
    \/ FacadeOutputLabel
    \/ SendWrite
    \/ SendWriteError
    \/ SendClose
    \/ SendConnect
    \/ SendConnectFail
    \/ ConnBreak

SpecFacade == InitSilent /\ [][NextFacade]_vars


(***************************************************************************)
(* Properties of the reader, the facade and the connection manager.        *)
(***************************************************************************)
\* C1: once the reader has read a stream of well-formed blocks to its end,
\* it has handed the router exactly those blocks, each as its header line
\* followed by all its body lines without the blank line; after the stream
\* of scenarios A and B the state is inputs = 4, outputs = 2, routing [3, 0].
C1_ReaderHandsWholeBlocks ==
    (rpc = "read" /\ conns[1].inbox = <<>> /\ ~obs.readFailures) =>
        /\ delivered = StreamBlocks(obs.stream)
        /\ obs.stream = ScenarioAB =>
               vh.inputs = 4 /\ vh.outputs = 2 /\ vh.routing = <<3, 0>>

\* C2: after a read failure the reader reconnects once, and when that
\* reconnect has succeeded its next reads are taken from the connection the
\* reconnect established.
C2_ReaderFollowsReconnect ==
    (obs.rdEstablished # 0 /\ obs.rdReadFrom # 0) => obs.rdReadFrom = obs.rdEstablished

\* a facade call has returned
CallDone == cpc = "idle" /\ obs.call.op # "none"

\* what connection c had received when the call in obs.call began
WireBefore(c) == IF c <= Len(obs.call.wire) THEN obs.call.wire[c] ELSE <<>>

\* C7: when the write succeeds, Route, InputLabel and OutputLabel write
\* exactly one block to the connection: the header line, the single body
\* line "<index> <source or text>" and the blank line, nothing else.
C7_CommandBytes ==
    (CallDone /\ obs.call.ok /\ obs.call.op \in {"Route", "InputLabel", "OutputLabel"}) =>
        conns[obs.call.conn].written =
            WireBefore(obs.call.conn) \o
                CASE obs.call.op = "Route" ->
                         Block(VIDEO_OUTPUT_ROUTING, <<RoutingLine(obs.call.args)>>)
                  [] obs.call.op = "InputLabel" ->
                         Block(INPUT_LABELS, <<LabelLine(obs.call.args)>>)
                  [] obs.call.op = "OutputLabel" ->
                         Block(OUTPUT_LABELS, <<LabelLine(obs.call.args)>>)

\* C7 witness: InputLabel(2, "Camera B") has returned and the connection
\* has received "INPUT LABELS:\n2 Camera B\n\n".
C7_Witness ==
    /\ CallDone /\ obs.call.ok /\ obs.call.op = "InputLabel"
    /\ conns[1].written = <<"I", "N", "P", "U", "T", " ", "L", "A", "B", "E", "L", "S", ":", "\n", "2", " ", "C", "a", "m", "e", "r", "a", " ", "B", "\n", "\n">>

\* C8: BulkRoute writes one routing block: the header once, one line
\* "<d> <s>" per pair in the order given, duplicates kept, then the blank line.
C8_BulkRouteBytes ==
    (CallDone /\ obs.call.ok /\ obs.call.op = "BulkRoute") =>
        conns[obs.call.conn].written =
            WireBefore(obs.call.conn) \o
                Block(VIDEO_OUTPUT_ROUTING,
                      [k \in 1..Len(obs.call.args) |-> RoutingLine(obs.call.args[k])])

\* C8 witness: BulkRoute([(0,2),(0,1)]) has returned and the connection has
\* received "VIDEO OUTPUT ROUTING:\n0 2\n0 1\n\n".
C8_Witness ==
    /\ CallDone /\ obs.call.ok /\ obs.call.op = "BulkRoute"
    /\ conns[1].written = <<"V", "I", "D", "E", "O", " ", "O", "U", "T", "P", "U", "T", " ", "R", "O", "U", "T", "I", "N", "G", ":", "\n", "0", " ", "2", "\n", "0", " ", "1", "\n", "\n">>

\* a send whose write failed has reconnected once, one whose write
\* succeeded not at all
SendFailureReconnectsOnce ==
    CallDone => obs.call.reconnects = (IF obs.call.ok THEN 0 ELSE 1)

\* a send whose write failed has written nothing to any connection
FailedCommandDropped ==
    (CallDone /\ ~obs.call.ok) =>
        \A c \in 1..Len(conns) : conns[c].written = WireBefore(c)

\* a send whose write succeeded has written its own command and terminator
\* to one connection and nothing to the others
CallWritesOwnCommand ==
    (CallDone /\ obs.call.ok) =>
        \A c \in 1..Len(conns) :
            conns[c].written = IF c = obs.call.conn
                               THEN WireBefore(c) \o command \o <<NL, NL>>
                               ELSE WireBefore(c)

\* C9 as claimed: a failed write triggers exactly one reconnect, the command
\* is dropped, and a later call writes only its own command, to the
\* connection established by that reconnect.  Stated for the runs in which
\* no reconnect of one thread has overlapped a reconnect of the other, so
\* that a violation does not rest on the unsynchronised socket handle.
C9_LaterCallOnSendConnection ==
    ~obs.overlap =>
        /\ SendFailureReconnectsOnce
        /\ FailedCommandDropped
        /\ CallWritesOwnCommand
        /\ (CallDone /\ obs.call.ok /\ obs.sendEstablished # 0) =>
               obs.call.conn = obs.sendEstablished

\* C9 as amended: a failed write triggers exactly one reconnect, the command
\* is dropped, and a later call writes only its own command, to the
\* connection established by that reconnect or to a newer one.
C9_FailedSendDropped ==
    /\ SendFailureReconnectsOnce
    /\ FailedCommandDropped
    /\ CallWritesOwnCommand
    /\ (CallDone /\ obs.call.ok /\ obs.sendEstablished # 0) =>
           obs.call.conn >= obs.sendEstablished

\* C9 witness: a send has failed and reconnected, and the next call has
\* written its command to the connection of that reconnect.
C9_Witness ==
    /\ CallDone /\ obs.call.ok /\ calls = 2
    /\ obs.sendEstablished = 2 /\ obs.call.conn = 2
    /\ conns[1].written = <<>>
    /\ conns[2].written = command \o <<NL, NL>>

\* a step of reconnect(), called by the reader or by send
ReconnectStep ==
    \/ ReaderClose
    \/ ReaderConnect
    \/ ReaderConnectFail
    \/ SendClose
    \/ SendConnect
    \/ SendConnectFail

\* C14: reconnect() and the connect() it calls change only the socket
\* handle: every step of a reconnect, triggered by the reader or by send,
\* keeps identity, counts, both label tables and the routing matrix.
C14_ReconnectKeepsDeviceState ==
    [][ReconnectStep => DeviceState(vh') = DeviceState(vh)]_vars

\* C14 witness: the reader and then send have each reconnected over a
\* Device State that holds identity, labels and a route; the socket handle
\* is the connection of the last reconnect and the state is still there.
C14_Witness ==
    /\ obs.rdEstablished = 2 /\ obs.sendEstablished = 3 /\ vh.conn = 3
    /\ vh.protocolVersion # <<>> /\ vh.model # <<>> /\ vh.uniqueID # <<>>
    /\ vh.inputs = MaxPort /\ vh.outputs = MaxPort
    /\ vh.inputLabels[1] # <<>>
    /\ vh.routing[1] # -1

\* C15: a send never writes to a socket that a concurrent reconnect has
\* closed or replaced: the write of a send fails only on a connection the
\* network broke, never on one the client itself has closed.
C15_SendNeverOnClosedSocket ==
    [][SendWriteError => ~conns[vh.conn].closed]_vars

\* C16: the client owns at most one open connection: every connection it
\* has dialled, other than the one in the socket handle, has been closed.
C16_AtMostOneOpenConnection ==
    \A c \in 1..Len(conns) : c # vh.conn => conns[c].closed

\* the bytes the call in obs.call has written to its connection
CallBytes ==
    SubSeq(conns[obs.call.conn].written,
           Len(WireBefore(obs.call.conn)) + 1, Len(conns[obs.call.conn].written))

\* C19: for every label text, the bytes InputLabel or OutputLabel writes
\* form exactly one block with exactly one body line: three lines (header,
\* body line, blank line), the only blank-line terminator being the last
\* two bytes.
C19_LabelIsOneLineOneBlock ==
    (CallDone /\ obs.call.ok /\ obs.call.op \in {"InputLabel", "OutputLabel"}) =>
        /\ Len(Split(CallBytes, <<NL>>)) = 4
        /\ Index(CallBytes, <<NL, NL>>) = Len(CallBytes) - 1

\* C10: a reconnect whose dial fails does not end the client.
C10_ReconnectFailureNotFatal ==
    obs.reconnectFailed => status = "running"

====
